---- MODULE Spec2Model ----
(***************************************************************************)
(* Snapshot-isolated optimistic transactions over a key-value store        *)
(* (src/db/transaction.h, src/db/transaction.cc).                          *)
(*                                                                         *)
(* Each transaction object is used by one thread at a time; distinct       *)
(* transactions run concurrently.  Get, Put, Delete and Abort touch shared *)
(* state in at most one place (the read of the store's current state), so  *)
(* each is one atomic action.  Commit is split at every point where        *)
(* another thread can be observed: waiting for commit_mutex_, each         *)
(* validation of one key, and the batch apply.                             *)
(***************************************************************************)
EXTENDS Integers, Sequences, FiniteSets, TLC

\* ------------------------------------------------------------------ bounds
NumTxns == 2
NumKeys == 2
NumVals == 2
MaxOps == 2

Txns == 1..NumTxns
Keys == 1..NumKeys
Vals == 1..NumVals

\* ------------------------------------------------------- program constants
\* the unlocked commit_mutex_ (no owner)
NoTxn == 0
\* a default-constructed std::string
EmptyString == 0
\* "no key" in the record of a call that takes none
NoKey == 0

VARIABLES
    store,          \* latest committed state of the DB: a map key -> value
    mutexHolder,    \* owner of Transaction::commit_mutex_, or NoTxn
    life,           \* per transaction object: "unborn", "live", "destroyed"
    released,       \* per transaction: number of ReleaseSnapshot calls made
    db_,            \* per transaction: TRUE iff db_ is non-null
    snapshot_,      \* per transaction: the snapshot handle
    state_,         \* per transaction: ACTIVE, COMMITTED, ABORTED
    read_set_,      \* per transaction: set of keys
    write_buffer_,  \* per transaction: map key -> BufferEntry
    write_batch_,   \* per transaction: sequence of Put/Delete records
    pc,             \* per transaction: position of its thread inside Commit
    todo,           \* per transaction: keys the running validation loop has yet to visit
    ret             \* the call that the last step made or continued

vars == <<store, mutexHolder, life, released, db_, snapshot_, state_,
          read_set_, write_buffer_, write_batch_, pc, todo, ret>>

\* ------------------------------------------------------------------- maps
EmptyMap == << >>

MapPut(m, k, e) == [x \in (DOMAIN m) \cup {k} |-> IF x = k THEN e ELSE m[x]]

MapErase(m, k) == [x \in (DOMAIN m) \ {k} |-> m[x]]

\* ------------------------------------------------------------ BufferEntry
BufferEntry(v) == [value |-> v, is_tombstone |-> FALSE]

Tombstone == [value |-> EmptyString, is_tombstone |-> TRUE]

\* ------------------------------------------------------------- WriteBatch
BatchPut(k, v) == [type |-> "Put", key |-> k, value |-> v]

BatchDelete(k) == [type |-> "Delete", key |-> k, value |-> EmptyString]

\* ------------------------------------------------------------------ store
\* A snapshot handle: null, or the immutable view taken by GetSnapshot.
NullSnapshot == [null |-> TRUE, view |-> EmptyMap]

GetSnapshot(db) == [null |-> FALSE, view |-> db]

\* db->Get(options, key, &value): value is written only when the key is found.
\* A read finds the key or reports NotFound; it does not fail otherwise.
DBGet(view, key, value) ==
    IF key \in DOMAIN view
    THEN [ok |-> TRUE, value |-> view[key]]
    ELSE [ok |-> FALSE, value |-> value]

\* db->Write(options, &batch): the operations of the batch, in order.
RECURSIVE DBWrite(_, _)
DBWrite(db, batch) ==
    IF batch = << >> THEN db
    ELSE LET op == Head(batch)
         IN  DBWrite(IF op.type = "Put" THEN MapPut(db, op.key, op.value)
                                        ELSE MapErase(db, op.key),
                     Tail(batch))

\* The DB the transactions are opened on: empty, or already holding the first
\* value under the first key.
InitialStores == {EmptyMap, MapPut(EmptyMap, 1, 1)}

\* ------------------------------------------------------------ Transaction
\* CheckActive with the COMMITTED test left out
CheckActive_IgnoresCommitted(t) ==
    IF state_[t] = "ABORTED" THEN "InvalidState"
    ELSE IF ~db_[t] THEN "InvalidState"
    ELSE IF snapshot_[t].null THEN "InvalidState"
    ELSE "OK"

CheckActive(t) ==
    IF state_[t] = "ABORTED" THEN "InvalidState"
    ELSE IF state_[t] = "COMMITTED" THEN "InvalidState"
    ELSE IF ~db_[t] THEN "InvalidState"
    ELSE IF snapshot_[t].null THEN "InvalidState"
    ELSE "OK"

\* the validator with the comparison of the contents left out
ValidateSnapshotIsolation_ExistenceOnly(db, snapshot, key, value) ==
    LET snap    == DBGet(snapshot.view, key, EmptyString)
        current == DBGet(db, key, value)
    IN  IF snap.ok # current.ok
        THEN [status |-> "Conflict", value |-> current.value]
        ELSE [status |-> "OK", value |-> current.value]

ValidateSnapshotIsolation(db, snapshot, key, value) ==
    LET snap    == DBGet(snapshot.view, key, EmptyString)
        current == DBGet(db, key, value)
        existed_at_snapshot == snap.ok
        exists_now == current.ok
    IN  IF existed_at_snapshot # exists_now
        THEN [status |-> "Conflict", value |-> current.value]
        ELSE IF existed_at_snapshot /\ exists_now /\ snap.value # current.value
        THEN [status |-> "Conflict", value |-> current.value]
        ELSE [status |-> "OK", value |-> current.value]

\* The record of a call: who, what, on which key, the status and the value it
\* returned ("Pending": the call has yet to return), and what it found on entry:
\* the state and the number of buffered operations.
Call(t, op, key, status, value) ==
    [t |-> t, op |-> op, key |-> key, status |-> status, value |-> value,
     was |-> state_[t], had |-> Len(write_batch_[t])]

\* what the transaction has accumulated: keys read and operations buffered
Tracked(t) == Cardinality(read_set_[t]) + Len(write_batch_[t])

\* Transaction::Abort as a function of the state it finds
AbortStatus(st) == IF st = "COMMITTED" THEN "InvalidState" ELSE "OK"

AbortState(st) == IF st = "COMMITTED" THEN "COMMITTED" ELSE "ABORTED"

AbortBuffer(st, buf) == IF st = "ACTIVE" THEN EmptyMap ELSE buf

\* Abort that forgets write_batch_.Clear()
AbortBatch_Keep(st, batch) == batch

AbortBatch(st, batch) == IF st = "ACTIVE" THEN << >> ELSE batch

\* write_buffer_[key_str] = BufferEntry(value_str)
BufferAfterPut(buf, key, value) == MapPut(buf, key, BufferEntry(value))

\* a batch that, like the buffer, keeps one operation per key, and keeps the first
BatchAfterPut_KeepFirst(batch, key, value) ==
    IF \E i \in 1..Len(batch) : batch[i].key = key
    THEN batch
    ELSE Append(batch, BatchPut(key, value))

\* write_batch_.Put(key, value)
BatchAfterPut(batch, key, value) == Append(batch, BatchPut(key, value))

\* Delete that erases the key from the buffer instead of leaving a tombstone
BufferAfterDelete_Erase(buf, key) == MapErase(buf, key)

\* write_buffer_[key_str] = BufferEntry::Tombstone()
BufferAfterDelete(buf, key) == MapPut(buf, key, Tombstone)

\* Delete that marks the tombstone but forgets the batch
BatchAfterDelete_Forgotten(batch, key) == batch

\* write_batch_.Delete(key)
BatchAfterDelete(batch, key) == Append(batch, BatchDelete(key))

\* a Commit without the read-only shortcut: it takes commit_mutex_ whatever the
\* write buffer holds
ReadOnly_Never(t) == FALSE

\* a shortcut that is taken only when nothing was read either
ReadOnly_NothingRead(t) == write_buffer_[t] = EmptyMap /\ read_set_[t] = {}

\* write_buffer_.empty(), the test of the read-only shortcut of Commit
ReadOnly(t) == write_buffer_[t] = EmptyMap

\* a Commit that validates the read set only
WriteValidationKeys_None(t) == {}

\* the keys the second validation loop of Commit visits
WriteValidationKeys(t) == DOMAIN write_buffer_[t]

Init ==
    /\ store \in InitialStores
    /\ mutexHolder = NoTxn
    /\ life = [t \in Txns |-> "unborn"]
    /\ released = [t \in Txns |-> 0]
    /\ db_ = [t \in Txns |-> FALSE]
    /\ snapshot_ = [t \in Txns |-> NullSnapshot]
    /\ state_ = [t \in Txns |-> "ACTIVE"]
    /\ read_set_ = [t \in Txns |-> {}]
    /\ write_buffer_ = [t \in Txns |-> EmptyMap]
    /\ write_batch_ = [t \in Txns |-> << >>]
    /\ pc = [t \in Txns |-> "idle"]
    /\ todo = [t \in Txns |-> {}]
    /\ ret = [t |-> NoTxn, op |-> "none", key |-> NoKey, status |-> "OK",
              value |-> EmptyString, was |-> "ACTIVE", had |-> 0]

\* a constructor that does not test what GetSnapshot returned
Begin_NoSnapshotTest(t, dbOk, snapOk) ==
    /\ life[t] = "unborn"
    /\ \A u \in Txns : u < t => life[u] # "unborn"
    /\ life' = [life EXCEPT ![t] = "live"]
    /\ db_' = [db_ EXCEPT ![t] = dbOk]
    /\ snapshot_' = [snapshot_ EXCEPT ![t] =
                        IF dbOk /\ snapOk THEN GetSnapshot(store) ELSE NullSnapshot]
    /\ state_' = [state_ EXCEPT ![t] = IF dbOk THEN "ACTIVE" ELSE "ABORTED"]
    /\ ret' = Call(t, "Begin", NoKey, "OK", EmptyString)
    /\ UNCHANGED <<store, mutexHolder, released, read_set_, write_buffer_,
                   write_batch_, pc, todo>>

\* Transaction::Transaction(db): db may be null, GetSnapshot may return null.
\* Transactions are interchangeable, so they are constructed in index order.
Begin(t, dbOk, snapOk) ==
    /\ life[t] = "unborn"
    /\ \A u \in Txns : u < t => life[u] # "unborn"
    /\ life' = [life EXCEPT ![t] = "live"]
    /\ db_' = [db_ EXCEPT ![t] = dbOk]
    /\ snapshot_' = [snapshot_ EXCEPT ![t] =
                        IF dbOk /\ snapOk THEN GetSnapshot(store) ELSE NullSnapshot]
    /\ state_' = [state_ EXCEPT ![t] = IF dbOk /\ snapOk THEN "ACTIVE" ELSE "ABORTED"]
    /\ ret' = Call(t, "Begin", NoKey, "OK", EmptyString)
    /\ UNCHANGED <<store, mutexHolder, released, read_set_, write_buffer_,
                   write_batch_, pc, todo>>

\* Transaction::~Transaction(): releases the snapshot; the members (read_set_,
\* write_buffer_, write_batch_) are destroyed with the object.
Destroy(t) ==
    /\ life[t] = "live"
    /\ pc[t] = "idle"
    /\ life' = [life EXCEPT ![t] = "destroyed"]
    /\ released' = [released EXCEPT ![t] =
                       IF ~snapshot_[t].null /\ db_[t] THEN @ + 1 ELSE @]
    /\ read_set_' = [read_set_ EXCEPT ![t] = {}]
    /\ write_buffer_' = [write_buffer_ EXCEPT ![t] = EmptyMap]
    /\ write_batch_' = [write_batch_ EXCEPT ![t] = << >>]
    /\ ret' = Call(t, "Destroy", NoKey, "OK", EmptyString)
    /\ UNCHANGED <<store, mutexHolder, db_, snapshot_, state_, pc, todo>>

\* Transaction::Get(options, key, &value); the caller's value starts empty.
\* The read at the snapshot is a read of an immutable view and everything else
\* but the read of the current state is local, so the call is one step.
Get(t, key) ==
    /\ life[t] = "live"
    /\ pc[t] = "idle"
    /\ (CheckActive(t) = "OK" /\ key \notin DOMAIN write_buffer_[t] \cup read_set_[t])
          => Tracked(t) < MaxOps
    /\ IF CheckActive(t) # "OK"
       THEN /\ ret' = Call(t, "Get", key, CheckActive(t), EmptyString)
            /\ UNCHANGED <<state_, read_set_, write_buffer_, write_batch_>>
       ELSE IF key \in DOMAIN write_buffer_[t]
       THEN /\ ret' = IF write_buffer_[t][key].is_tombstone
                      THEN Call(t, "Get", key, "NotFound", EmptyString)
                      ELSE Call(t, "Get", key, "OK", write_buffer_[t][key].value)
            /\ UNCHANGED <<state_, read_set_, write_buffer_, write_batch_>>
       ELSE LET s == ValidateSnapshotIsolation(store, snapshot_[t], key, EmptyString)
            IN  /\ state_' = [state_ EXCEPT ![t] =
                                 IF s.status # "OK" THEN AbortState(@) ELSE @]
                /\ write_buffer_' = [write_buffer_ EXCEPT ![t] =
                                 IF s.status # "OK" THEN AbortBuffer(state_[t], @) ELSE @]
                /\ write_batch_' = [write_batch_ EXCEPT ![t] =
                                 IF s.status # "OK" THEN AbortBatch(state_[t], @) ELSE @]
                /\ read_set_' = [read_set_ EXCEPT ![t] = @ \cup {key}]
                /\ ret' = Call(t, "Get", key, s.status, s.value)
    /\ UNCHANGED <<store, mutexHolder, life, released, db_, snapshot_, pc, todo>>

\* a Put that writes through to the store as well as to the buffer
Put_WriteThrough(t, key, value) ==
    /\ life[t] = "live"
    /\ pc[t] = "idle"
    /\ CheckActive(t) = "OK" => Tracked(t) < MaxOps
    /\ IF CheckActive(t) # "OK"
       THEN /\ ret' = Call(t, "Put", key, CheckActive(t), EmptyString)
            /\ UNCHANGED <<store, write_buffer_, write_batch_>>
       ELSE /\ write_buffer_' = [write_buffer_ EXCEPT ![t] = BufferAfterPut(@, key, value)]
            /\ write_batch_' = [write_batch_ EXCEPT ![t] = BatchAfterPut(@, key, value)]
            /\ store' = MapPut(store, key, value)
            /\ ret' = Call(t, "Put", key, "OK", EmptyString)
    /\ UNCHANGED <<mutexHolder, life, released, db_, snapshot_, state_,
                   read_set_, pc, todo>>

\* Transaction::Put(key, value)
Put(t, key, value) ==
    /\ life[t] = "live"
    /\ pc[t] = "idle"
    /\ CheckActive(t) = "OK" => Tracked(t) < MaxOps
    /\ IF CheckActive(t) # "OK"
       THEN /\ ret' = Call(t, "Put", key, CheckActive(t), EmptyString)
            /\ UNCHANGED <<write_buffer_, write_batch_>>
       ELSE /\ write_buffer_' = [write_buffer_ EXCEPT ![t] = BufferAfterPut(@, key, value)]
            /\ write_batch_' = [write_batch_ EXCEPT ![t] = BatchAfterPut(@, key, value)]
            /\ ret' = Call(t, "Put", key, "OK", EmptyString)
    /\ UNCHANGED <<store, mutexHolder, life, released, db_, snapshot_, state_,
                   read_set_, pc, todo>>

\* Transaction::Delete(key)
Delete(t, key) ==
    /\ life[t] = "live"
    /\ pc[t] = "idle"
    /\ CheckActive(t) = "OK" => Tracked(t) < MaxOps
    /\ IF CheckActive(t) # "OK"
       THEN /\ ret' = Call(t, "Delete", key, CheckActive(t), EmptyString)
            /\ UNCHANGED <<write_buffer_, write_batch_>>
       ELSE /\ write_buffer_' = [write_buffer_ EXCEPT ![t] = BufferAfterDelete(@, key)]
            /\ write_batch_' = [write_batch_ EXCEPT ![t] = BatchAfterDelete(@, key)]
            /\ ret' = Call(t, "Delete", key, "OK", EmptyString)
    /\ UNCHANGED <<store, mutexHolder, life, released, db_, snapshot_, state_,
                   read_set_, pc, todo>>

\* an Abort that also gives the snapshot back, leaving the handle in place
Abort_Releases(t) ==
    /\ life[t] = "live"
    /\ pc[t] = "idle"
    /\ state_' = [state_ EXCEPT ![t] = AbortState(@)]
    /\ write_buffer_' = [write_buffer_ EXCEPT ![t] = AbortBuffer(state_[t], @)]
    /\ write_batch_' = [write_batch_ EXCEPT ![t] = AbortBatch(state_[t], @)]
    /\ released' = [released EXCEPT ![t] =
                       IF state_[t] = "ACTIVE" /\ ~snapshot_[t].null THEN @ + 1 ELSE @]
    /\ ret' = Call(t, "Abort", NoKey, AbortStatus(state_[t]), EmptyString)
    /\ UNCHANGED <<store, mutexHolder, life, db_, snapshot_, read_set_, pc, todo>>

\* Transaction::Abort()
Abort(t) ==
    /\ life[t] = "live"
    /\ pc[t] = "idle"
    /\ state_' = [state_ EXCEPT ![t] = AbortState(@)]
    /\ write_buffer_' = [write_buffer_ EXCEPT ![t] = AbortBuffer(state_[t], @)]
    /\ write_batch_' = [write_batch_ EXCEPT ![t] = AbortBatch(state_[t], @)]
    /\ ret' = Call(t, "Abort", NoKey, AbortStatus(state_[t]), EmptyString)
    /\ UNCHANGED <<store, mutexHolder, life, released, db_, snapshot_, read_set_,
                   pc, todo>>

\* Transaction::Commit(), from entry to the acquisition of commit_mutex_:
\* the state check, the read-only shortcut, or the wait for the lock.
CommitBegin(t) ==
    /\ life[t] = "live"
    /\ pc[t] = "idle"
    /\ IF CheckActive(t) # "OK"
       THEN /\ ret' = Call(t, "Commit", NoKey, CheckActive(t), EmptyString)
            /\ UNCHANGED <<state_, pc>>
       ELSE IF ReadOnly(t)
       THEN /\ state_' = [state_ EXCEPT ![t] = "COMMITTED"]
            /\ ret' = Call(t, "Commit", NoKey, "OK", EmptyString)
            /\ UNCHANGED pc
       ELSE /\ pc' = [pc EXCEPT ![t] = "lock"]
            /\ ret' = Call(t, "Commit", NoKey, "Pending", EmptyString)
            /\ UNCHANGED state_
    /\ UNCHANGED <<store, mutexHolder, life, released, db_, snapshot_, read_set_,
                   write_buffer_, write_batch_, todo>>

\* where Commit stands once the loop over `keys` has no key left to visit
AfterReads(t) == IF WriteValidationKeys(t) = {} THEN "apply" ELSE "validate_writes"

\* a Commit that enters its validation without waiting for commit_mutex_
CommitLock_NoWait(t) ==
    /\ pc[t] = "lock"
    /\ mutexHolder' = t
    /\ pc' = [pc EXCEPT ![t] = IF read_set_[t] = {} THEN AfterReads(t)
                                                     ELSE "validate_reads"]
    /\ todo' = [todo EXCEPT ![t] = IF read_set_[t] = {} THEN WriteValidationKeys(t)
                                                         ELSE read_set_[t]]
    /\ ret' = Call(t, "Commit", NoKey, "Pending", EmptyString)
    /\ UNCHANGED <<store, life, released, db_, snapshot_, state_, read_set_,
                   write_buffer_, write_batch_>>

\* std::lock_guard<std::mutex> lock(commit_mutex_), then the entry of the first loop
CommitLock(t) ==
    /\ pc[t] = "lock"
    /\ mutexHolder = NoTxn
    /\ mutexHolder' = t
    /\ pc' = [pc EXCEPT ![t] = IF read_set_[t] = {} THEN AfterReads(t)
                                                     ELSE "validate_reads"]
    /\ todo' = [todo EXCEPT ![t] = IF read_set_[t] = {} THEN WriteValidationKeys(t)
                                                         ELSE read_set_[t]]
    /\ ret' = Call(t, "Commit", NoKey, "Pending", EmptyString)
    /\ UNCHANGED <<store, life, released, db_, snapshot_, state_, read_set_,
                   write_buffer_, write_batch_>>

\* a conflict at commit that rolls the transaction back, as Get does
CommitConflict_Aborts(t, s) ==
    /\ mutexHolder' = NoTxn
    /\ pc' = [pc EXCEPT ![t] = "idle"]
    /\ todo' = [todo EXCEPT ![t] = {}]
    /\ ret' = Call(t, "Commit", NoKey, s.status, EmptyString)
    /\ state_' = [state_ EXCEPT ![t] = AbortState(@)]
    /\ write_buffer_' = [write_buffer_ EXCEPT ![t] = AbortBuffer(state_[t], @)]
    /\ write_batch_' = [write_batch_ EXCEPT ![t] = AbortBatch(state_[t], @)]

\* a conflict return that leaves commit_mutex_ locked (a manual lock() whose
\* unlock() the early return skips)
CommitConflict_KeepsLock(t, s) ==
    /\ pc' = [pc EXCEPT ![t] = "idle"]
    /\ todo' = [todo EXCEPT ![t] = {}]
    /\ ret' = Call(t, "Commit", NoKey, s.status, EmptyString)
    /\ UNCHANGED <<mutexHolder, state_, write_buffer_, write_batch_>>

\* `return s` inside a validation loop: the lock_guard releases the mutex and
\* nothing of the transaction is touched.
CommitConflict(t, s) ==
    /\ mutexHolder' = NoTxn
    /\ pc' = [pc EXCEPT ![t] = "idle"]
    /\ todo' = [todo EXCEPT ![t] = {}]
    /\ ret' = Call(t, "Commit", NoKey, s.status, EmptyString)
    /\ UNCHANGED <<state_, write_buffer_, write_batch_>>

\* a first loop that re-reads the keys of the read set but drops the verdict
CommitValidateRead_Unchecked(t) ==
    /\ pc[t] = "validate_reads"
    /\ \E key \in todo[t] :
          /\ pc' = [pc EXCEPT ![t] = IF todo[t] = {key} THEN AfterReads(t)
                                                         ELSE "validate_reads"]
          /\ todo' = [todo EXCEPT ![t] = IF todo[t] = {key}
                                          THEN WriteValidationKeys(t)
                                          ELSE todo[t] \ {key}]
          /\ ret' = Call(t, "Commit", NoKey, "Pending", EmptyString)
          /\ UNCHANGED <<mutexHolder, state_, write_buffer_, write_batch_>>
    /\ UNCHANGED <<store, life, released, db_, snapshot_, read_set_>>

\* one iteration of  for (key : read_set_)  (unordered_set: any order)
CommitValidateRead(t) ==
    /\ pc[t] = "validate_reads"
    /\ \E key \in todo[t] :
         LET s == ValidateSnapshotIsolation(store, snapshot_[t], key, EmptyString)
         IN  IF s.status # "OK"
             THEN CommitConflict(t, s)
             ELSE /\ pc' = [pc EXCEPT ![t] = IF todo[t] = {key} THEN AfterReads(t)
                                                                 ELSE "validate_reads"]
                  /\ todo' = [todo EXCEPT ![t] = IF todo[t] = {key}
                                                  THEN WriteValidationKeys(t)
                                                  ELSE todo[t] \ {key}]
                  /\ ret' = Call(t, "Commit", NoKey, "Pending", EmptyString)
                  /\ UNCHANGED <<mutexHolder, state_, write_buffer_, write_batch_>>
    /\ UNCHANGED <<store, life, released, db_, snapshot_, read_set_>>

\* one iteration of  for (entry : write_buffer_)  (unordered_map: any order)
CommitValidateWrite(t) ==
    /\ pc[t] = "validate_writes"
    /\ \E key \in todo[t] :
         LET s == ValidateSnapshotIsolation(store, snapshot_[t], key, EmptyString)
         IN  IF s.status # "OK"
             THEN CommitConflict(t, s)
             ELSE /\ pc' = [pc EXCEPT ![t] = IF todo[t] = {key} THEN "apply"
                                                                 ELSE "validate_writes"]
                  /\ todo' = [todo EXCEPT ![t] = todo[t] \ {key}]
                  /\ ret' = Call(t, "Commit", NoKey, "Pending", EmptyString)
                  /\ UNCHANGED <<mutexHolder, state_, write_buffer_, write_batch_>>
    /\ UNCHANGED <<store, life, released, db_, snapshot_, read_set_>>

\* a Commit that returns the store's error without rolling back
CommitApply_NoRollback(t, writeOk) ==
    /\ pc[t] = "apply"
    /\ store' = IF writeOk THEN DBWrite(store, write_batch_[t]) ELSE store
    /\ state_' = [state_ EXCEPT ![t] = IF writeOk THEN "COMMITTED" ELSE @]
    /\ write_buffer_' = [write_buffer_ EXCEPT ![t] = IF writeOk THEN EmptyMap ELSE @]
    /\ write_batch_' = [write_batch_ EXCEPT ![t] = IF writeOk THEN << >> ELSE @]
    /\ mutexHolder' = NoTxn
    /\ pc' = [pc EXCEPT ![t] = "idle"]
    /\ ret' = Call(t, "Commit", NoKey, IF writeOk THEN "OK" ELSE "StoreError", EmptyString)
    /\ UNCHANGED <<life, released, db_, snapshot_, read_set_, todo>>

\* db_->Write(write_opts, &write_batch_) and what follows it, to the return.
\* writeOk = FALSE: the store rejects the batch and applies none of it.
CommitApply(t, writeOk) ==
    /\ pc[t] = "apply"
    /\ store' = IF writeOk THEN DBWrite(store, write_batch_[t]) ELSE store
    /\ state_' = [state_ EXCEPT ![t] = IF writeOk THEN "COMMITTED" ELSE AbortState(@)]
    /\ write_buffer_' = [write_buffer_ EXCEPT ![t] =
                            IF writeOk THEN EmptyMap ELSE AbortBuffer(state_[t], @)]
    /\ write_batch_' = [write_batch_ EXCEPT ![t] =
                           IF writeOk THEN << >> ELSE AbortBatch(state_[t], @)]
    /\ mutexHolder' = NoTxn
    /\ pc' = [pc EXCEPT ![t] = "idle"]
    /\ ret' = Call(t, "Commit", NoKey, IF writeOk THEN "OK" ELSE "StoreError", EmptyString)
    /\ UNCHANGED <<life, released, db_, snapshot_, read_set_, todo>>

Next ==
    \/ \E t \in Txns, dbOk \in BOOLEAN, snapOk \in BOOLEAN : Begin(t, dbOk, snapOk)
    \/ \E t \in Txns : Destroy(t)
    \/ \E t \in Txns, key \in Keys : Get(t, key)
    \/ \E t \in Txns, key \in Keys, value \in Vals : Put(t, key, value)
    \/ \E t \in Txns, key \in Keys : Delete(t, key)
    \/ \E t \in Txns : Abort(t)
    \/ \E t \in Txns : CommitBegin(t)
    \/ \E t \in Txns : CommitLock(t)
    \/ \E t \in Txns : CommitValidateRead(t)
    \/ \E t \in Txns : CommitValidateWrite(t)
    \/ \E t \in Txns, writeOk \in BOOLEAN : CommitApply(t, writeOk)

Spec == Init /\ [][Next]_vars

\* The threads that commit, for the progress of Commit: every transaction is
\* constructed on an open store and lives on, and its writes are Puts of the
\* first value.
LockNext ==
    \/ \E t \in Txns : Begin(t, TRUE, TRUE)
    \/ \E t \in Txns, key \in Keys : Get(t, key)
    \/ \E t \in Txns, key \in Keys : Put(t, key, 1)
    \/ \E t \in Txns : Abort(t)
    \/ \E t \in Txns : CommitBegin(t)
    \/ \E t \in Txns : CommitLock(t)
    \/ \E t \in Txns : CommitValidateRead(t)
    \/ \E t \in Txns : CommitValidateWrite(t)
    \/ \E t \in Txns, writeOk \in BOOLEAN : CommitApply(t, writeOk)

\* Fair scheduling and terminating store calls: a thread inside Commit keeps
\* running (each validation read and the Write return), and a thread that
\* waits for commit_mutex_ is not passed over forever when the mutex is free
\* again and again.
Fairness ==
    \A t \in Txns :
        /\ SF_vars(CommitLock(t))
        /\ WF_vars(CommitValidateRead(t))
        /\ WF_vars(CommitValidateWrite(t))
        /\ WF_vars(\E writeOk \in BOOLEAN : CommitApply(t, writeOk))

LockSpec == Init /\ [][LockNext]_vars /\ Fairness

\* ---------------------------------------------------------------- properties
\* key differs between two views: present in one only, or present in both with
\* different contents
Differs(key, a, b) ==
    \/ (key \in DOMAIN a) # (key \in DOMAIN b)
    \/ key \in DOMAIN a /\ key \in DOMAIN b /\ a[key] # b[key]

\* t is between the start of its commit-time validation and the end of its apply
InCommitPhase(t) == pc[t] \in {"validate_reads", "validate_writes", "apply"}

\* the step is a step of call `op` on t (ret' is the call the step belongs to)
StepOf(t, op) == ret'.t = t /\ ret'.op = op

\* the store holds what the buffer entry says for key
Holds(db, key, entry) ==
    IF entry.is_tombstone THEN key \notin DOMAIN db
    ELSE key \in DOMAIN db /\ db[key] = entry.value

\* C1: commit atomicity.  A step of Commit that returns OK leaves in the store,
\* for every key of the write buffer, what the buffer held for it (the last
\* Put or Delete on the key); every other step of Commit (one that returns
\* InvalidState, Conflict or a store error, or one that has yet to return)
\* leaves the store as it was.
CommitAtomicity ==
    [][\A t \in Txns : StepOf(t, "Commit") =>
          IF ret'.status = "OK"
          THEN \A k \in DOMAIN write_buffer_[t] : Holds(store', k, write_buffer_[t][k])
          ELSE store' = store]_vars

\* a Commit has just returned OK after writing two keys
CommitAtomicityWitness ==
    \E t \in Txns :
        /\ ret.t = t /\ ret.op = "Commit" /\ ret.status = "OK"
        /\ \E k1, k2 \in Keys :
              /\ k1 # k2
              /\ Differs(k1, store, snapshot_[t].view)
              /\ Differs(k2, store, snapshot_[t].view)

\* C2: commit serialization.  At most one transaction is between the start of
\* its validation and the end of its apply, and it is the owner of the commit
\* mutex: no other transaction's validation read or apply falls in between.
CommitSerialization ==
    \A t \in Txns : InCommitPhase(t) =>
        /\ mutexHolder = t
        /\ \A u \in Txns \ {t} : ~InCommitPhase(u)

\* one transaction validates while another waits for the mutex
CommitSerializationWitness ==
    \E t, u \in Txns : InCommitPhase(t) /\ pc[u] = "lock"

\* C3: no lost update.  When a Commit that holds a buffered write to a key whose
\* current state differs from the transaction's snapshot returns, it returns
\* Conflict, the transaction stays ACTIVE and the store is untouched; an Abort
\* that follows returns OK and makes the transaction ABORTED, the store still
\* untouched.
NoLostUpdate ==
    [][\A t \in Txns :
          /\ ( /\ StepOf(t, "Commit")
               /\ InCommitPhase(t)
               /\ ret'.status # "Pending"
               /\ \E k \in DOMAIN write_buffer_[t] : Differs(k, store, snapshot_[t].view) )
             => ( /\ ret'.status = "Conflict"
                  /\ state_'[t] = "ACTIVE"
                  /\ store' = store )
          /\ ( /\ ret.t = t /\ ret.op = "Commit" /\ ret.status = "Conflict"
               /\ StepOf(t, "Abort") )
             => ( /\ ret'.status = "OK"
                  /\ state_'[t] = "ABORTED"
                  /\ store' = store )]_vars

\* two transactions began on the same store state and buffered a write to the
\* same key; the first committed and changed the key, and the Commit of the
\* second, which read nothing, has just been refused
NoLostUpdateWitness ==
    \E t, u \in Txns :
        /\ t # u
        /\ snapshot_[t] = snapshot_[u] /\ ~snapshot_[t].null
        /\ state_[t] = "COMMITTED"
        /\ ret.t = u /\ ret.op = "Commit" /\ ret.status = "Conflict"
        /\ state_[u] = "ACTIVE"
        /\ read_set_[u] = {}
        /\ \E k \in DOMAIN write_buffer_[u] : Differs(k, store, snapshot_[u].view)

\* the fields of transaction t that only its own calls may touch
Local(t) == <<state_[t], read_set_[t], write_buffer_[t], write_batch_[t]>>

\* C4: a commit-time conflict does not abort.  The step on which a Commit
\* returns Conflict finds the transaction ACTIVE with a non-empty write buffer
\* and leaves its state, write buffer, write batch and read set, and the store,
\* as they were; so do the steps of that Commit before it, and the steps other
\* transactions take meanwhile.  After the return the transaction passes the
\* state check and is free to take any call.
CommitConflictKeepsActive ==
    [][\A t \in Txns :
          /\ (StepOf(t, "Commit") /\ ret'.status = "Conflict") =>
                /\ state_[t] = "ACTIVE"
                /\ write_buffer_[t] # EmptyMap
                /\ Local(t)' = Local(t)
                /\ store' = store
                /\ CheckActive(t)' = "OK"
                /\ life'[t] = "live" /\ pc'[t] = "idle"
          /\ (StepOf(t, "Commit") /\ ret'.status = "Pending") =>
                (Local(t)' = Local(t) /\ store' = store)
          /\ (pc[t] # "idle" /\ ret'.t # t) => Local(t)' = Local(t)]_vars

\* a Commit with buffered writes has just returned Conflict
CommitConflictKeepsActiveWitness ==
    \E t \in Txns :
        /\ ret.t = t /\ ret.op = "Commit" /\ ret.status = "Conflict"
        /\ state_[t] = "ACTIVE"
        /\ write_batch_[t] # << >>
        /\ read_set_[t] # {}

\* C5: an inline read conflict aborts.  Get(k) on a transaction that passes the
\* state check, with k not in the write buffer and k's current state different
\* from the snapshot's, returns Conflict and leaves the transaction ABORTED with
\* write buffer and write batch empty; every Get, Put, Delete and Commit on an
\* ABORTED transaction returns InvalidState and leaves it ABORTED.
InlineConflictAborts ==
    [][\A t \in Txns :
          /\ ( /\ StepOf(t, "Get")
               /\ CheckActive(t) = "OK"
               /\ ret'.key \notin DOMAIN write_buffer_[t]
               /\ Differs(ret'.key, store, snapshot_[t].view) )
             => ( /\ ret'.status = "Conflict"
                  /\ state_'[t] = "ABORTED"
                  /\ write_buffer_'[t] = EmptyMap
                  /\ write_batch_'[t] = << >> )
          /\ ( /\ state_[t] = "ABORTED"
               /\ ret'.t = t /\ ret'.op \in {"Get", "Put", "Delete", "Commit"} )
             => ( /\ ret'.status = "InvalidState"
                  /\ state_'[t] = "ABORTED" )]_vars

\* a Get has just met a key whose contents changed (it is present in the
\* snapshot and in the store, with different values) and discarded buffered writes
InlineConflictAbortsWitness ==
    \E t \in Txns :
        /\ ret.t = t /\ ret.op = "Get" /\ ret.status = "Conflict"
        /\ state_[t] = "ABORTED"
        /\ ret.key \in DOMAIN store /\ ret.key \in DOMAIN snapshot_[t].view
        /\ store[ret.key] # snapshot_[t].view[ret.key]

\* C6: Get(k) on a transaction that passes the state check returns NotFound
\* when k's buffer entry is a tombstone, and when k is not in the buffer and is
\* absent from the snapshot and from the store.
GetAbsentIsNotFound ==
    [][\A t \in Txns :
          ( /\ StepOf(t, "Get")
            /\ CheckActive(t) = "OK"
            /\ \/ /\ ret'.key \in DOMAIN write_buffer_[t]
                  /\ write_buffer_[t][ret'.key].is_tombstone
               \/ /\ ret'.key \notin DOMAIN write_buffer_[t]
                  /\ ret'.key \notin DOMAIN store
                  /\ ret'.key \notin DOMAIN snapshot_[t].view )
          => ret'.status = "NotFound"]_vars

\* the operations t has buffered on key, oldest first
RECURSIVE OpsOn(_, _)
OpsOn(batch, key) ==
    IF batch = << >> THEN << >>
    ELSE IF Head(batch).key = key THEN <<Head(batch)>> \o OpsOn(Tail(batch), key)
    ELSE OpsOn(Tail(batch), key)

\* C7: read-your-own-write, last write wins.  Get(k) on a transaction that
\* passes the state check and has buffered an operation on k returns the value
\* of the last Put(k, v) buffered, or NotFound if the last operation buffered on
\* k is a Delete, whatever the snapshot and the store hold; it leaves the
\* transaction's state, read set, buffer and batch as they were.
ReadYourOwnWrite ==
    [][\A t \in Txns :
          ( /\ StepOf(t, "Get")
            /\ CheckActive(t) = "OK"
            /\ OpsOn(write_batch_[t], ret'.key) # << >> )
          => LET ops  == OpsOn(write_batch_[t], ret'.key)
                 last == ops[Len(ops)]
             IN  /\ IF last.type = "Delete"
                    THEN ret'.status = "NotFound"
                    ELSE ret'.status = "OK" /\ ret'.value = last.value
                 /\ Local(t)' = Local(t)]_vars

\* a Get has just returned NotFound for a key that the transaction put and then
\* deleted, and that the snapshot and the store hold
ReadYourOwnWriteWitness ==
    \E t \in Txns :
        /\ ret.t = t /\ ret.op = "Get" /\ ret.status = "NotFound"
        /\ state_[t] = "ACTIVE"
        /\ Len(OpsOn(write_batch_[t], ret.key)) > 1
        /\ OpsOn(write_batch_[t], ret.key)[1].type = "Put"
        /\ ret.key \in DOMAIN store
        /\ ret.key \in DOMAIN snapshot_[t].view

\* C8: terminal states are absorbing.  A transaction's state changes only
\* from ACTIVE to COMMITTED or from ACTIVE to ABORTED.  On a COMMITTED or ABORTED
\* transaction every Get, Put, Delete and Commit returns InvalidState, Abort
\* returns OK if ABORTED and InvalidState if COMMITTED, and none of them changes
\* the transaction's state or the store.
TerminalAbsorbing ==
    [][\A t \in Txns :
          /\ state_'[t] # state_[t] =>
                (state_[t] = "ACTIVE" /\ state_'[t] \in {"COMMITTED", "ABORTED"})
          /\ (state_[t] \in {"COMMITTED", "ABORTED"} /\ life[t] = "live" /\ ret'.t = t) =>
                /\ ret'.op \in {"Get", "Put", "Delete", "Commit"} =>
                      ret'.status = "InvalidState"
                /\ ret'.op = "Abort" =>
                      ret'.status = (IF state_[t] = "ABORTED" THEN "OK" ELSE "InvalidState")
                /\ state_'[t] = state_[t]
                /\ store' = store]_vars

\* a Put has just been refused by a transaction that committed writes
TerminalAbsorbingWitness ==
    \E t \in Txns :
        /\ ret.t = t /\ ret.op = "Put" /\ ret.status = "InvalidState"
        /\ state_[t] = "COMMITTED"
        /\ store # snapshot_[t].view

\* C9: read-only commit shortcut.  Commit on a transaction that passes the state
\* check and has an empty write buffer returns OK at once and makes it
\* COMMITTED, whatever has happened to the keys of its read set; the store is
\* as it was.
ReadOnlyCommitShortcut ==
    [][\A t \in Txns :
          ( /\ StepOf(t, "Commit")
            /\ pc[t] = "idle"
            /\ CheckActive(t) = "OK"
            /\ write_buffer_[t] = EmptyMap )
          => ( /\ ret'.status = "OK"
               /\ state_'[t] = "COMMITTED"
               /\ pc'[t] = "idle"
               /\ store' = store )]_vars

\* a Commit with nothing buffered has just returned OK although a key of the
\* read set no longer is what the snapshot holds
ReadOnlyCommitShortcutWitness ==
    \E t \in Txns :
        /\ ret.t = t /\ ret.op = "Commit" /\ ret.status = "OK" /\ ret.had = 0
        /\ state_[t] = "COMMITTED"
        /\ \E k \in read_set_[t] : Differs(k, store, snapshot_[t].view)

\* C10: Abort on an ACTIVE transaction returns OK, makes it ABORTED, empties
\* write buffer and write batch and leaves the store as it was; an ABORTED
\* transaction stays ABORTED with both empty and no step of it changes the
\* store, so nothing buffered before the Abort is applied later.
AbortDiscardsWrites ==
    [][\A t \in Txns :
          /\ (StepOf(t, "Abort") /\ state_[t] = "ACTIVE") =>
                /\ ret'.status = "OK"
                /\ state_'[t] = "ABORTED"
                /\ write_buffer_'[t] = EmptyMap
                /\ write_batch_'[t] = << >>
                /\ store' = store
          /\ state_[t] = "ABORTED" =>
                /\ state_'[t] = "ABORTED"
                /\ write_buffer_'[t] = EmptyMap
                /\ write_batch_'[t] = << >>
                /\ ret'.t = t => store' = store]_vars

\* an Abort has just discarded the buffered writes of an ACTIVE transaction
AbortDiscardsWritesWitness ==
    \E t \in Txns :
        /\ ret.t = t /\ ret.op = "Abort" /\ ret.status = "OK"
        /\ ret.was = "ACTIVE" /\ ret.had > 1
        /\ state_[t] = "ABORTED"
        /\ write_batch_[t] = << >>

\* C11: apply failure rolls back.  A Commit returns the store's error only from
\* its apply step, that is after every validation has passed; the step leaves
\* the transaction ABORTED with write buffer and write batch empty, and the
\* store as it was.
ApplyFailureRollsBack ==
    [][\A t \in Txns :
          (StepOf(t, "Commit") /\ ret'.status = "StoreError") =>
              /\ pc[t] = "apply"
              /\ \A k \in read_set_[t] \cup DOMAIN write_buffer_[t] :
                    ~Differs(k, store, snapshot_[t].view)
              /\ state_'[t] = "ABORTED"
              /\ write_buffer_'[t] = EmptyMap
              /\ write_batch_'[t] = << >>
              /\ store' = store]_vars

\* the store has just refused the batch of a Commit that had read one key and
\* buffered a write to another
ApplyFailureRollsBackWitness ==
    \E t \in Txns :
        /\ ret.t = t /\ ret.op = "Commit" /\ ret.status = "StoreError"
        /\ ret.was = "ACTIVE" /\ ret.had > 0
        /\ read_set_[t] # {}
        /\ state_[t] = "ABORTED"

\* the construction of t failed: the store was null, or GetSnapshot returned null
ConstructionFailed(t) == life[t] # "unborn" /\ (~db_[t] \/ snapshot_[t].null)

\* C12: construction failure is an ABORTED transaction.  A transaction begun on
\* a null store, or whose GetSnapshot returned null, is ABORTED from its
\* construction on; every Get, Put, Delete and Commit on it returns
\* InvalidState (a Get without a value), Abort returns OK, and no step of it,
\* its destruction included, changes the store, takes the commit mutex,
\* acquires a snapshot or releases one.
ConstructionFailureIsAborted ==
    [][\A t \in Txns :
          /\ ConstructionFailed(t)' => state_'[t] = "ABORTED"
          /\ (ConstructionFailed(t) /\ ret'.t = t) =>
                /\ ret'.op \in {"Get", "Put", "Delete", "Commit"} =>
                      (ret'.status = "InvalidState" /\ ret'.value = EmptyString)
                /\ ret'.op = "Abort" => ret'.status = "OK"
                /\ store' = store
                /\ mutexHolder' = mutexHolder /\ pc'[t] = "idle"
                /\ snapshot_'[t] = NullSnapshot
                /\ read_set_'[t] = {}
                /\ released'[t] = 0]_vars

\* a Get has just been refused by a transaction begun on a null store while the
\* store holds the key
ConstructionFailureIsAbortedWitness ==
    \E t \in Txns :
        /\ life[t] = "live" /\ ~db_[t]
        /\ ret.t = t /\ ret.op = "Get" /\ ret.status = "InvalidState"
        /\ ret.key \in DOMAIN store

\* the keys a Commit of t has to validate
TrackedKeys(t) == read_set_[t] \cup DOMAIN write_buffer_[t]

\* C13: commit-time validation is complete.  A Commit with buffered writes
\* reaches its apply step only while it owns the commit mutex and every key of
\* its read set and of its write buffer is, in the store, what it is in the
\* snapshot; a Commit that holds the mutex while one of those keys differs
\* (present on one side only, or present on both with different contents) can
\* only return Conflict, and no step it takes changes the store.
CommitValidationComplete ==
    [][\A t \in Txns :
          /\ (StepOf(t, "Commit") /\ pc[t] = "apply") =>
                /\ mutexHolder = t
                /\ write_buffer_[t] # EmptyMap
                /\ \A k \in TrackedKeys(t) : ~Differs(k, store, snapshot_[t].view)
          /\ ( /\ StepOf(t, "Commit")
               /\ InCommitPhase(t)
               /\ \E k \in TrackedKeys(t) : Differs(k, store, snapshot_[t].view) )
             => ( /\ ret'.status \in {"Pending", "Conflict"}
                  /\ pc'[t] # "apply"
                  /\ store' = store )]_vars

\* a Commit has just been refused for a key it had read, whose contents another
\* transaction changed, while the keys it buffered are what the snapshot holds
CommitValidationCompleteWitness ==
    \E t \in Txns :
        /\ ret.t = t /\ ret.op = "Commit" /\ ret.status = "Conflict"
        /\ write_buffer_[t] # EmptyMap
        /\ \A k \in DOMAIN write_buffer_[t] : ~Differs(k, store, snapshot_[t].view)
        /\ \E k \in read_set_[t] :
              /\ k \in DOMAIN store /\ k \in DOMAIN snapshot_[t].view
              /\ store[k] # snapshot_[t].view[k]

\* C14: read_set only grows, and only while the transaction is ACTIVE.  No call
\* removes a key from the read set; the read set changes only on a Get, on a
\* transaction that passes the state check, of a key absent from the write
\* buffer whose validation reports no conflict, by the addition of that key,
\* and the transaction is ACTIVE after it; a Get that returns Conflict, and
\* every call on a COMMITTED or ABORTED transaction, leaves the read set as it
\* was.
ReadSetGrowsOnlyWhileActive ==
    [][\A t \in Txns :
          /\ ret'.op # "Destroy" => read_set_[t] \subseteq read_set_'[t]
          /\ (read_set_'[t] # read_set_[t] /\ ret'.op # "Destroy") =>
                /\ StepOf(t, "Get")
                /\ CheckActive(t) = "OK"
                /\ ret'.key \notin DOMAIN write_buffer_[t]
                /\ ret'.status # "Conflict"
                /\ read_set_'[t] = read_set_[t] \cup {ret'.key}
                /\ state_'[t] = "ACTIVE"
          /\ (StepOf(t, "Get") /\ ret'.status = "Conflict") =>
                read_set_'[t] = read_set_[t]
          /\ (state_[t] \in {"COMMITTED", "ABORTED"} /\ ret'.op # "Destroy") =>
                read_set_'[t] = read_set_[t]]_vars

\* write_batch replayed, in order, into a map: a Put sets a value entry, a
\* Delete sets a tombstone entry
RECURSIVE Replay(_, _)
Replay(buf, batch) ==
    IF batch = << >> THEN buf
    ELSE LET op == Head(batch)
         IN  Replay(MapPut(buf, op.key, IF op.type = "Put" THEN [value |-> op.value,
                                                                  is_tombstone |-> FALSE]
                                                            ELSE [value |-> EmptyString,
                                                                  is_tombstone |-> TRUE]),
                    Tail(batch))

\* C15: buffer and batch in lockstep.  Both are empty before the first step,
\* and after every step the write batch of every transaction replayed from the
\* empty map is its write buffer;
\* a Put or Delete that passes the state check appends exactly one operation
\* to the batch and sets the buffer entry of its key; a Commit that returns OK
\* and an Abort leave both empty.
BufferBatchLockstep ==
    [][\A t \in Txns :
          /\ ret.op = "none" => (write_batch_[t] = << >> /\ write_buffer_[t] = EmptyMap)
          /\ Replay(EmptyMap, write_batch_'[t]) = write_buffer_'[t]
          /\ (ret'.t = t /\ ret'.op \in {"Put", "Delete"} /\ CheckActive(t) = "OK") =>
                /\ Len(write_batch_'[t]) = Len(write_batch_[t]) + 1
                /\ SubSeq(write_batch_'[t], 1, Len(write_batch_[t])) = write_batch_[t]
                /\ ret'.key \in DOMAIN write_buffer_'[t]
                /\ write_buffer_'[t][ret'.key].is_tombstone = (ret'.op = "Delete")
          /\ ( \/ StepOf(t, "Commit") /\ ret'.status = "OK"
               \/ StepOf(t, "Abort") /\ ret'.status = "OK" )
             => (write_buffer_'[t] = EmptyMap /\ write_batch_'[t] = << >>)]_vars

\* a Delete has just turned the value entry of a key into a tombstone: two
\* operations in the batch, one entry in the buffer
BufferBatchLockstepWitness ==
    \E t \in Txns :
        /\ ret.t = t /\ ret.op = "Delete" /\ ret.status = "OK"
        /\ Len(write_batch_[t]) > 1
        /\ write_batch_[t][1].type = "Put"
        /\ DOMAIN write_buffer_[t] = {ret.key}

\* C16: snapshot ownership.  The number of ReleaseSnapshot calls made for a
\* transaction changes only on its destruction; the destruction of a
\* transaction that holds a snapshot, whatever its state, takes the number from
\* zero to one, and that of a transaction that holds none leaves it at zero;
\* from construction on the handle never changes.
SnapshotOwnership ==
    [][\A t \in Txns :
          /\ released'[t] # released[t] => StepOf(t, "Destroy")
          /\ StepOf(t, "Destroy") =>
                /\ released[t] = 0
                /\ released'[t] = (IF snapshot_[t].null THEN 0 ELSE 1)
          /\ life[t] # "unborn" => snapshot_'[t] = snapshot_[t]
          /\ life[t] = "destroyed" => life'[t] = "destroyed"]_vars

\* a transaction that ended ABORTED without a read has just been destroyed, and
\* its snapshot, taken of another store state than the present one, released
SnapshotOwnershipWitness ==
    \E t \in Txns :
        /\ ret.t = t /\ ret.op = "Destroy"
        /\ life[t] = "destroyed"
        /\ state_[t] = "ABORTED" /\ read_set_[t] = {}
        /\ ~snapshot_[t].null /\ snapshot_[t].view # store
        /\ released[t] = 1

\* C17: the commit lock is released on every exit path.  The step on which a
\* Commit that owns the commit mutex returns (with OK, Conflict or the store's
\* error) frees the mutex, and the mutex is owned only by a transaction inside
\* its validate+apply phase; under fair scheduling every transaction that waits
\* for the mutex gets it, and its Commit returns.
CommitLockReleased ==
    /\ [][\A t \in Txns :
            /\ (StepOf(t, "Commit") /\ InCommitPhase(t) /\ ret'.status # "Pending") =>
                  /\ ret'.status \in {"OK", "Conflict", "StoreError"}
                  /\ mutexHolder = t
                  /\ mutexHolder' = NoTxn
                  /\ pc'[t] = "idle"
            /\ mutexHolder' = t => InCommitPhase(t)']_vars
    /\ \A t \in Txns : (pc[t] = "lock") ~> (mutexHolder = t)
    /\ \A t \in Txns : (pc[t] # "idle") ~> (pc[t] = "idle")

\* the store has just refused a batch and the Commit returned, freeing the
\* mutex that another transaction is waiting for
CommitLockReleasedWitness ==
    \E t, u \in Txns :
        /\ ret.t = t /\ ret.op = "Commit" /\ ret.status = "StoreError"
        /\ mutexHolder = NoTxn
        /\ pc[u] = "lock"

\* C18: only a commit with writes takes the commit lock.  A step of Abort, Get,
\* Put or Delete, or of a Commit entered with an empty write buffer, leaves the
\* owner of the commit mutex as it was and returns at once (it never waits);
\* the mutex changes hands to t only on a Commit step of t whose write buffer
\* is non-empty, and only such a transaction is ever inside Commit.  So while
\* another transaction owns the mutex, Abort and Commit of an idle live
\* transaction, and its Get, Put and Delete, can be taken.
OnlyWritingCommitLocks ==
    /\ [][\A t \in Txns :
            /\ ( /\ ret'.t = t
                 /\ pc[t] = "idle"
                 /\ \/ ret'.op \in {"Abort", "Get", "Put", "Delete"}
                    \/ ret'.op = "Commit" /\ write_buffer_[t] = EmptyMap )
                  => /\ mutexHolder' = mutexHolder
                     /\ pc'[t] = "idle"
                     /\ ret'.status # "Pending"
            /\ (mutexHolder' = t /\ mutexHolder # t)
                  => (StepOf(t, "Commit") /\ write_buffer_[t] # EmptyMap)
            /\ pc'[t] # "idle" => write_buffer_'[t] # EmptyMap]_vars
    /\ [](\A t \in Txns :
            (life[t] = "live" /\ pc[t] = "idle" /\ mutexHolder \notin {NoTxn, t})
               => /\ ENABLED Abort(t)
                  /\ ENABLED CommitBegin(t)
                  /\ Tracked(t) < MaxOps =>
                        \A key \in Keys : /\ ENABLED Get(t, key)
                                          /\ ENABLED Put(t, key, 1)
                                          /\ ENABLED Delete(t, key))

\* a Commit of a transaction that buffered nothing has returned OK while
\* another transaction owns the commit mutex
OnlyWritingCommitLocksWitness ==
    \E t, u \in Txns :
        /\ t # u
        /\ mutexHolder = u
        /\ ret.t = t /\ ret.op = "Commit" /\ ret.status = "OK"
        /\ ret.was = "ACTIVE" /\ ret.had = 0
        /\ read_set_[t] # {}

\* C19: uncommitted writes are invisible.  The store changes only on the apply
\* step of a Commit that returns OK, by the batch of a transaction that was
\* ACTIVE and ends COMMITTED, never ABORTED.  A Put or Delete on an ACTIVE
\* transaction returns OK and leaves the store, the transaction's read set and
\* state, and every other transaction as they were, changing both its write
\* buffer and its write batch.  A Get that is not answered from the caller's
\* own write buffer returns the bytes the store holds for the key, or none:
\* never what only some write buffer holds.
UncommittedWritesInvisible ==
    [][/\ store' # store =>
             \E t \in Txns :
                 /\ StepOf(t, "Commit") /\ pc[t] = "apply" /\ ret'.status = "OK"
                 /\ state_[t] = "ACTIVE" /\ state_'[t] = "COMMITTED"
                 /\ store' = DBWrite(store, write_batch_[t])
       /\ \A t \in Txns :
             ((StepOf(t, "Put") \/ StepOf(t, "Delete")) /\ state_[t] = "ACTIVE") =>
                 /\ ret'.status = "OK"
                 /\ store' = store
                 /\ read_set_'[t] = read_set_[t] /\ state_'[t] = state_[t]
                 /\ \A u \in Txns \ {t} : Local(u)' = Local(u)
                 /\ ret'.key \in DOMAIN write_buffer_'[t]
                 /\ write_batch_'[t] # write_batch_[t]
       /\ \A u \in Txns :
             (StepOf(u, "Get") /\ state_[u] = "ACTIVE"
                /\ ret'.key \notin DOMAIN write_buffer_[u]) =>
                 /\ ret'.value = DBGet(store, ret'.key, EmptyString).value
                 /\ store' = store
       /\ \A t \in Txns : state_[t] = "ABORTED" => state_'[t] = "ABORTED"]_vars

\* a Get of one transaction has returned the committed bytes of a key for
\* which another, uncommitted transaction buffers different bytes
UncommittedWritesInvisibleWitness ==
    \E t, u \in Txns :
        /\ t # u
        /\ state_[t] = "ACTIVE"
        /\ ret.t = u /\ ret.op = "Get" /\ ret.status = "OK"
        /\ ret.key \in DOMAIN write_buffer_[t]
        /\ ~write_buffer_[t][ret.key].is_tombstone
        /\ ret.value # write_buffer_[t][ret.key].value
        /\ ret.key \notin DOMAIN write_buffer_[u]

\* C20: snapshot-stable reads.  A Get on a transaction that passes the state
\* check, of a key its write buffer does not hold, that does not return
\* Conflict reports what the key held in the transaction's snapshot: OK with the
\* snapshot's bytes when the snapshot holds the key, NotFound when it does not,
\* whatever other transactions have committed since.
SnapshotStableReads ==
    [][\A t \in Txns :
          ( /\ StepOf(t, "Get")
            /\ CheckActive(t) = "OK"
            /\ ret'.key \notin DOMAIN write_buffer_[t]
            /\ ret'.status # "Conflict" )
          => IF ret'.key \in DOMAIN snapshot_[t].view
             THEN /\ ret'.status = "OK"
                  /\ ret'.value = snapshot_[t].view[ret'.key]
             ELSE ret'.status = "NotFound"]_vars

====
